---- MODULE Spec2Model ----
(***************************************************************************)
(* State-machine model of snek (src/src/main.cpp): the Grid of Blocks, the *)
(* Snake (head, body, heading), the fruit spawner and the main loop with   *)
(* its game states and its two time accumulators.                          *)
(*                                                                         *)
(* Conventions                                                             *)
(*  - A position is a pair <<x, y>>.  sf::Vector2u holds 32-bit unsigned   *)
(*    components; the model stores each component as the two's-complement  *)
(*    signed value of the same 32 bits (as int(lhs.x) does in operator+),  *)
(*    so the unsigned value UINT_MAX is stored as -1.  Unsigned comparison *)
(*    is UGe.  No component ever comes near +-2^31 within the bounds.      *)
(*  - Time is counted in units of 0.125 s, so 0.25f is 2 and 5.0f is 40.   *)
(*  - Colours and vertex arrays of Block are presentation and are not      *)
(*    modelled; neither is sf::Event::Closed.                              *)
(*  - A write through Grid::operator[] with an index >= blocks.size() is   *)
(*    undefined behaviour: the model lets it either kill the process       *)
(*    (pc = "crashed") or land outside the blocks, leave them as they are  *)
(*    and let the process go on (pc = "undefined" from then on).           *)
(*  - Spec takes one event, or the switch of one loop iteration, as one    *)
(*    step.  LoopSpec steps through the loop body (event loop, clock       *)
(*    restart, each draw of get_block_randomly, movement check) on smaller *)
(*    grids and with elapsed times below the movement interval;            *)
(*    FairLoopSpec adds the fairness of the random draws.                  *)
(***************************************************************************)
EXTENDS Integers, Sequences, FiniteSets, TLC

VARIABLES
    horizontal,        \* Grid::_horizontal
    vertical,          \* Grid::_vertical
    blocks,            \* Grid::blocks: index -> BlockType
    head_position,     \* Snake::head_position
    body_positions,    \* Snake::body_positions (nearest to head first)
    direction,         \* Snake::_direction
    state,             \* main: GameStates state
    clock,             \* main: time on sf::Clock since its last restart
    movement_seconds,  \* main: movement accumulator
    spawn_seconds,     \* main: spawn accumulator
    title,             \* window title (set by the catch blocks)
    pc,                \* "running"; "undefined" (running after a write
                       \* outside blocks); "crashed" (the process is gone);
                       \* "spinning" (get_block_randomly never returns)
    at,                \* main: where in the loop body control is: "poll"
                       \* (the event loop), "sample" (the do-while of
                       \* get_block_randomly), "move" (the movement check)
    sampled,           \* get_block_randomly: its local pos
    travelled          \* history: the heading of the latest successful
                       \* step, "None" before the first

vars == <<horizontal, vertical, blocks, head_position, body_positions,
          direction, state, clock, movement_seconds, spawn_seconds, title, pc,
          at, sampled, travelled>>

\* control inside the loop body and the record of the latest step; Spec
\* takes a whole loop iteration as one step and leaves these alone,
\* LoopSpec steps through the body and keeps the record
inner == <<at, sampled, travelled>>

----------------------------------------------------------------------------
(* Bounds of the model *)

\* a grid has at most MaxCells blocks (main builds one of 19 x 15)
MaxCells == 6
MaxBody == 3
MaxFruit == 2
MaxClock == 40

(* Elapsed times a loop iteration may observe, in units of 0.125 s: half   *)
(* the spawn interval and the whole of it                                  *)
Deltas == {20, 40}

(* Program constants, in units of 0.125 s *)
MovementInterval == 2
SpawnInterval == 40

----------------------------------------------------------------------------
(* Enumerations *)

Vacant == "Vacant"
OccupiedSnake == "OccupiedSnake"
OccupiedFruit == "OccupiedFruit"
BlockType == {Vacant, OccupiedSnake, OccupiedFruit}

Direction == {"None", "Left", "Right", "Up", "Down"}
Keys == {"Left", "Right", "Up", "Down"}

GameStates == {"Start", "InProgress", "End"}

TitleSnek == "Snek"
WhatMotor == "cannot turn the opposite direction"
WhatHorizontal == "cannot move outside the grid horizontally"
WhatVertical == "cannot move outside the grid vertically"
WhatCollision == "collided with the snake's own body"

is_occupied(type) == type = OccupiedFruit \/ type = OccupiedSnake

----------------------------------------------------------------------------
(* Grid *)

\* unsigned comparison a >= n of a 32-bit value stored in signed form,
\* for 0 <= n < 2^31
UGe(a, n) == a < 0 \/ a >= n

Len_(w, h) == w * h

\* Grid::operator[](sf::Vector2u): the index pos.x + pos.y * horizontal()
\* is computed in size_t; it lies inside blocks iff both components are
\* below 2^31 (non-negative in signed form) and the sum is below w * h.
InBlocks(pos, w, h) ==
    /\ pos[1] >= 0
    /\ pos[2] >= 0
    /\ pos[1] + pos[2] * w < Len_(w, h)

Index(pos, w) == pos[1] + pos[2] * w

\* grid[pos].set_type(type); an out-of-range write leaves blocks alone
SetType(g, pos, w, h, type) ==
    IF InBlocks(pos, w, h) THEN [g EXCEPT ![Index(pos, w)] = type] ELSE g

\* sf::Vector2u operator+(sf::Vector2u, sf::Vector2i)
VecAdd(lhs, rhs) == <<lhs[1] + rhs[1], lhs[2] + rhs[2]>>

to_pos(d) ==
    CASE d = "Left" -> <<-1, 0>>
      [] d = "Right" -> <<1, 0>>
      [] d = "Up" -> <<0, -1>>
      [] d = "Down" -> <<0, 1>>
      [] OTHER -> <<0, 0>>

----------------------------------------------------------------------------
(* Snake *)

\* faulty variant of Snake::assert that forgets the collision check
SnakeAssert_NoCollision(g, pos, w, h) ==
    IF UGe(pos[1], w) THEN WhatHorizontal
    ELSE IF UGe(pos[2], h) THEN WhatVertical
    ELSE "ok"

\* Snake::assert: "ok", or the what() of the exception thrown
SnakeAssert(g, pos, w, h) ==
    IF UGe(pos[1], w) THEN WhatHorizontal
    ELSE IF UGe(pos[2], h) THEN WhatVertical
    ELSE IF g[Index(pos, w)] = OccupiedSnake THEN WhatCollision
    ELSE "ok"

\* faulty variant of Snake::assert_direction with a wrong pair: it refuses
\* Up while heading Left instead of Up while heading Down
assert_direction_WrongPair(direct, cur) ==
    \/ (direct = "Left" /\ cur = "Right") \/ (direct = "Right" /\ cur = "Left")
    \/ (direct = "Up" /\ cur = "Left") \/ (direct = "Down" /\ cur = "Up")

\* faulty variant of Snake::assert_direction that forgets the vertical pair
assert_direction_HorizontalOnly(direct, cur) ==
    \/ (direct = "Left" /\ cur = "Right") \/ (direct = "Right" /\ cur = "Left")

\* Snake::assert_direction: TRUE iff MotorException is thrown
assert_direction(direct, cur) ==
    \/ (direct = "Left" /\ cur = "Right") \/ (direct = "Right" /\ cur = "Left")
    \/ (direct = "Up" /\ cur = "Down") \/ (direct = "Down" /\ cur = "Up")

\* A snake-and-grid value: the fields move() and add_body() read and write,
\* with oob recording whether some write went outside blocks.
Machine(g, head, body, oob) == [g |-> g, head |-> head, body |-> body, oob |-> oob]

\* Snake::update_pos on the head
UpdateHead(m, new_pos, w, h) ==
    LET g1 == SetType(m.g, m.head, w, h, Vacant)
        g2 == SetType(g1, new_pos, w, h, OccupiedSnake)
    IN  Machine(g2, new_pos, m.body,
                m.oob \/ ~InBlocks(m.head, w, h) \/ ~InBlocks(new_pos, w, h))

\* faulty variant of Snake::update_pos on a segment that does not mark
\* the block it leaves Vacant
UpdateSegment_KeepsOld(m, i, new_pos, w, h) ==
    Machine(SetType(m.g, new_pos, w, h, OccupiedSnake), m.head,
            [m.body EXCEPT ![i] = new_pos],
            m.oob \/ ~InBlocks(new_pos, w, h))

\* Snake::update_pos on body segment i
UpdateSegment(m, i, new_pos, w, h) ==
    LET g1 == SetType(m.g, m.body[i], w, h, Vacant)
        g2 == SetType(g1, new_pos, w, h, OccupiedSnake)
    IN  Machine(g2, m.head, [m.body EXCEPT ![i] = new_pos],
                m.oob \/ ~InBlocks(m.body[i], w, h) \/ ~InBlocks(new_pos, w, h))

\* the for loop of Snake::move, from segment i on, old_pos being the
\* position the predecessor held before the step
RECURSIVE ShiftBody(_, _, _, _, _)
ShiftBody(m, i, old_pos, w, h) ==
    IF i > Len(m.body) THEN m
    ELSE LET before == m.body[i]
         IN  ShiftBody(UpdateSegment(m, i, old_pos, w, h), i + 1, before, w, h)

\* Snake::add_body
add_body(m, d, w, h) ==
    LET last == IF m.body = <<>> THEN m.head ELSE m.body[Len(m.body)]
        tail == CASE d = "Left" -> <<last[1] + 1, last[2]>>
                  [] d = "Right" -> <<last[1] - 1, last[2]>>
                  [] d = "Up" -> <<last[1], last[2] + 1>>
                  [] d = "Down" -> <<last[1], last[2] - 1>>
                  [] OTHER -> last
    IN  Machine(SetType(m.g, tail, w, h, OccupiedSnake), m.head,
                Append(m.body, tail), m.oob \/ ~InBlocks(tail, w, h))

\* faulty variant of Snake::move that reads old_pos after the head moved,
\* so the first segment follows onto the head's new position
MoveBody_FollowsNewHead(m, d, w, h) ==
    LET new_pos == VecAdd(m.head, to_pos(d))
        was_occupied_by_fruit == m.g[Index(new_pos, w)] = OccupiedFruit
        m1 == UpdateHead(m, new_pos, w, h)
        m2 == ShiftBody(m1, 1, m1.head, w, h)
    IN  IF was_occupied_by_fruit THEN add_body(m2, d, w, h) ELSE m2

\* Snake::move after assert(new_pos) has passed
MoveBody(m, d, w, h) ==
    LET old_pos == m.head
        new_pos == VecAdd(m.head, to_pos(d))
        was_occupied_by_fruit == m.g[Index(new_pos, w)] = OccupiedFruit
        m1 == UpdateHead(m, new_pos, w, h)
        m2 == ShiftBody(m1, 1, old_pos, w, h)
    IN  IF was_occupied_by_fruit THEN add_body(m2, d, w, h) ELSE m2

\* faulty variant of Snake::move that moves the head before it validates
\* the new position
move_WritesFirst(m, d, w, h) ==
    LET new_pos == VecAdd(m.head, to_pos(d))
        thrown == SnakeAssert(m.g, new_pos, w, h)
    IN  [thrown |-> thrown,
         m |-> IF thrown = "ok" THEN MoveBody(m, d, w, h)
               ELSE UpdateHead(m, new_pos, w, h)]

\* Snake::move: the exception it throws ("ok" if none) and the result
move(m, d, w, h) ==
    LET new_pos == VecAdd(m.head, to_pos(d))
        thrown == SnakeAssert(m.g, new_pos, w, h)
    IN  [thrown |-> thrown,
         m |-> IF thrown = "ok" THEN MoveBody(m, d, w, h) ELSE m]

----------------------------------------------------------------------------
(* Construction: Grid(horizontal, vertical), Snake(grid), main's locals *)

EmptyBlocks(w, h) == [i \in 0 .. (Len_(w, h) - 1) |-> Vacant]

\* randomiser::gen(min, max): std::uniform_int_distribution is inclusive
gen(min, max) == min .. max

Init ==
    /\ horizontal \in 1 .. MaxCells
    /\ vertical \in 1 .. MaxCells
    /\ Len_(horizontal, vertical) <= MaxCells
    /\ \E x \in gen(0, horizontal), y \in gen(0, vertical) :
         LET initial == <<x, y>> IN
         /\ head_position = initial
         /\ blocks = SetType(EmptyBlocks(horizontal, vertical), initial,
                             horizontal, vertical, OccupiedSnake)
         /\ IF InBlocks(initial, horizontal, vertical)
            THEN pc = "running"
            ELSE pc \in {"undefined", "crashed"}
    /\ body_positions = <<>>
    /\ direction = "None"
    /\ state = "Start"
    /\ clock = 0
    /\ movement_seconds = 0
    /\ spawn_seconds = 0
    /\ title = TitleSnek
    /\ at = "poll"
    /\ sampled = 0
    /\ travelled = "None"

----------------------------------------------------------------------------
(* Event polling: one sf::Event::KeyPressed with an arrow key *)

\* the main loop is executing
Alive == pc \in {"running", "undefined"}

KeyPressed(key) ==
    /\ Alive
    /\ IF assert_direction(key, direction)
       THEN /\ title' = WhatMotor
            /\ UNCHANGED direction
       ELSE /\ direction' = key
            /\ UNCHANGED title
    /\ UNCHANGED <<horizontal, vertical, blocks, head_position, body_positions,
                   state, clock, movement_seconds, spawn_seconds, pc, inner>>

----------------------------------------------------------------------------
(* The switch (state) of one loop iteration, d being the time that passed  *)
(* since the previous iteration                                            *)

\* faulty variant of case GameStates::Start that does not look at the
\* heading
UpdateStart_Unconditional(d) ==
    /\ Alive
    /\ state = "Start"
    /\ direction = "None" => clock + d <= MaxClock
    /\ clock' = clock + d
    /\ state' = "InProgress"
    /\ UNCHANGED <<horizontal, vertical, blocks, head_position, body_positions,
                   direction, movement_seconds, spawn_seconds, title, pc,
                   inner>>

UpdateStart(d) ==
    /\ Alive
    /\ state = "Start"
    /\ direction = "None" => clock + d <= MaxClock
    /\ clock' = clock + d
    /\ state' = IF direction # "None" THEN "InProgress" ELSE "Start"
    /\ UNCHANGED <<horizontal, vertical, blocks, head_position, body_positions,
                   direction, movement_seconds, spawn_seconds, title, pc,
                   inner>>

\* indices get_block_randomly can return
VacantIndices(g) == {i \in DOMAIN g : ~is_occupied(g[i])}

FruitIndices(g) == {i \in DOMAIN g : g[i] = OccupiedFruit}

\* does this iteration spawn / move
SpawnFires(d) == spawn_seconds + clock + d >= SpawnInterval
MovementFires(d) == movement_seconds + clock + d >= MovementInterval

\* blocks after the spawn part of the iteration, r being the index returned
\* by get_block_randomly
AfterSpawn(d, r) ==
    IF SpawnFires(d) THEN [blocks EXCEPT ![r] = OccupiedFruit] ELSE blocks

\* the snake and grid after the movement part
Moved(d, r) ==
    move(Machine(AfterSpawn(d, r), head_position, body_positions, FALSE),
         direction, horizontal, vertical)

\* spawn_fruit never returns: every block is occupied
UpdateSpin(d) ==
    /\ Alive
    /\ state = "InProgress"
    /\ SpawnFires(d)
    /\ VacantIndices(blocks) = {}
    /\ pc' = "spinning"
    /\ clock' = 0
    /\ movement_seconds' = movement_seconds + clock + d
    /\ spawn_seconds' = spawn_seconds + clock + d
    /\ UNCHANGED <<horizontal, vertical, blocks, head_position, body_positions,
                   direction, state, title, inner>>

\* faulty variant of the catch clauses that lacks the one for
\* CollisionException
Catches_RangeOnly(thrown) == thrown \in {WhatHorizontal, WhatVertical}

\* the catch clauses around snake.move(): std::out_of_range and
\* CollisionException are caught; anything else would leave main
Catches(thrown) == thrown \in {WhatHorizontal, WhatVertical, WhatCollision}

UpdateInProgress(d, r, crash) ==
    /\ Alive
    /\ state = "InProgress"
    /\ SpawnFires(d) => r \in VacantIndices(blocks)
    /\ ~SpawnFires(d) => r = 0
    /\ LET res == Moved(d, r)
           fires == MovementFires(d)
           oob == fires /\ res.m.oob
           uncaught == fires /\ res.thrown # "ok" /\ ~Catches(res.thrown)
       IN
       /\ crash => oob
       /\ fires => Len(res.m.body) <= MaxBody
       /\ SpawnFires(d) => Cardinality(FruitIndices(blocks)) < MaxFruit
       /\ IF crash \/ uncaught
          THEN /\ pc' = "crashed"
               /\ UNCHANGED <<blocks, head_position, body_positions, state, title,
                              clock, movement_seconds, spawn_seconds>>
          ELSE /\ pc' = IF oob THEN "undefined" ELSE pc
               /\ clock' = 0
               /\ spawn_seconds' = IF SpawnFires(d) THEN 0
                                   ELSE spawn_seconds + clock + d
               /\ movement_seconds' = IF fires THEN 0
                                      ELSE movement_seconds + clock + d
               /\ IF fires
                  THEN /\ blocks' = res.m.g
                       /\ head_position' = res.m.head
                       /\ body_positions' = res.m.body
                       /\ IF res.thrown = "ok"
                          THEN UNCHANGED <<state, title>>
                          ELSE /\ state' = "End"
                               /\ title' = res.thrown
                  ELSE /\ blocks' = AfterSpawn(d, r)
                       /\ UNCHANGED <<head_position, body_positions, state, title>>
    /\ UNCHANGED <<horizontal, vertical, direction, inner>>

UpdateEnd ==
    /\ Alive
    /\ state = "End"
    /\ UNCHANGED vars

Next ==
    \/ \E key \in Keys : KeyPressed(key)
    \/ \E d \in Deltas : UpdateStart(d)
    \/ \E d \in Deltas : UpdateSpin(d)
    \/ \E d \in Deltas, r \in DOMAIN blocks, crash \in BOOLEAN :
         UpdateInProgress(d, r, crash)
    \/ UpdateEnd

Spec == Init /\ [][Next]_vars

----------------------------------------------------------------------------
(* The loop body step by step: the event loop, then the switch; inside     *)
(* case InProgress the clock restart with the two additions, the do-while  *)
(* of get_block_randomly one draw at a time, and the movement check.       *)

\* grids of LoopSpec have at most LoopCells blocks
LoopCells == 4

\* iterations shorter than the movement interval happen only while the
\* clock and the spawn accumulator stay at or below MaxShort
MaxShort == 2

(* Elapsed times of LoopSpec, in units of 0.125 s: half the movement       *)
(* interval, the spawn interval less that half, and the spawn interval     *)
LoopDeltas == {1, 39, 40}

LoopInit == Init /\ Len_(horizontal, vertical) <= LoopCells

\* faulty variant of the event loop that also handles events between the
\* time check and the movement check
PollEvent_AnyTime(key) == KeyPressed(key)

\* while (window.pollEvent(event)): one KeyPressed event
PollEvent(key) == at = "poll" /\ KeyPressed(key)

\* case GameStates::Start, reached when pollEvent returns false
LoopStart(d) ==
    /\ at = "poll"
    /\ d < MovementInterval => clock + d <= MaxShort
    /\ UpdateStart(d)

\* case GameStates::InProgress up to the spawn check
ClockRestart(d) ==
    /\ Alive
    /\ at = "poll"
    /\ state = "InProgress"
    /\ d < MovementInterval => spawn_seconds + clock + d <= MaxShort
    /\ clock' = 0
    /\ movement_seconds' = movement_seconds + clock + d
    /\ spawn_seconds' = spawn_seconds + clock + d
    /\ at' = IF spawn_seconds' >= SpawnInterval THEN "sample" ELSE "move"
    /\ sampled' = 0
    /\ UNCHANGED <<horizontal, vertical, blocks, head_position, body_positions,
                   direction, state, title, pc, travelled>>

\* faulty variant of the do-while of get_block_randomly that accepts the
\* first draw whatever the block's type
SampleBlock_FirstDraw(i) ==
    /\ Alive
    /\ at = "sample"
    /\ i \in gen(0, Len_(horizontal, vertical) - 1)
    /\ blocks' = [blocks EXCEPT ![i] = OccupiedFruit]
    /\ spawn_seconds' = 0
    /\ at' = "move"
    /\ sampled' = 0
    /\ UNCHANGED <<horizontal, vertical, head_position, body_positions,
                   direction, state, clock, movement_seconds, title, pc,
                   travelled>>

\* faulty variant of the do-while of get_block_randomly that draws from
\* gen(0, len() - 2), so never the last block
SampleBlock_SkipsLast(i) ==
    /\ Alive
    /\ at = "sample"
    /\ i \in gen(0, Len_(horizontal, vertical) - 2)
    /\ IF is_occupied(blocks[i])
       THEN /\ sampled' = i
            /\ UNCHANGED <<blocks, spawn_seconds, at>>
       ELSE /\ blocks' = [blocks EXCEPT ![i] = OccupiedFruit]
            /\ spawn_seconds' = 0
            /\ at' = "move"
            /\ sampled' = 0
    /\ UNCHANGED <<horizontal, vertical, head_position, body_positions,
                   direction, state, clock, movement_seconds, title, pc,
                   travelled>>

\* one pass of the do-while of get_block_randomly drawing i; when the
\* block is not occupied the function returns and spawn_fruit and the
\* reset of spawn_seconds follow
SampleBlock(i) ==
    /\ Alive
    /\ at = "sample"
    /\ i \in gen(0, Len_(horizontal, vertical) - 1)
    /\ IF is_occupied(blocks[i])
       THEN /\ sampled' = i
            /\ UNCHANGED <<blocks, spawn_seconds, at>>
       ELSE /\ blocks' = [blocks EXCEPT ![i] = OccupiedFruit]
            /\ spawn_seconds' = 0
            /\ at' = "move"
            /\ sampled' = 0
    /\ UNCHANGED <<horizontal, vertical, head_position, body_positions,
                   direction, state, clock, movement_seconds, title, pc,
                   travelled>>

\* faulty variant of the movement check that carries the excess over
\* instead of resetting the accumulator
MoveCheck_CarryOver(crash) ==
    /\ Alive
    /\ at = "move"
    /\ LET res == move(Machine(blocks, head_position, body_positions, FALSE),
                       direction, horizontal, vertical)
           fires == movement_seconds >= MovementInterval
           oob == fires /\ res.m.oob
           uncaught == fires /\ res.thrown # "ok" /\ ~Catches(res.thrown)
       IN
       /\ crash => oob
       /\ fires => Len(res.m.body) <= MaxBody
       /\ IF crash \/ uncaught
          THEN /\ pc' = "crashed"
               /\ UNCHANGED <<blocks, head_position, body_positions, state, title,
                              movement_seconds, at, travelled>>
          ELSE /\ pc' = IF oob THEN "undefined" ELSE pc
               /\ at' = "poll"
               /\ IF fires
                  THEN /\ movement_seconds' = movement_seconds - MovementInterval
                       /\ blocks' = res.m.g
                       /\ head_position' = res.m.head
                       /\ body_positions' = res.m.body
                       /\ IF res.thrown = "ok"
                          THEN /\ travelled' = direction
                               /\ UNCHANGED <<state, title>>
                          ELSE /\ state' = "End"
                               /\ title' = res.thrown
                               /\ UNCHANGED travelled
                  ELSE UNCHANGED <<movement_seconds, blocks, head_position,
                                   body_positions, state, title, travelled>>
    /\ UNCHANGED <<horizontal, vertical, direction, clock, spawn_seconds, sampled>>

\* if (movement_seconds >= 0.25f) { try { snake.move(); } catch ... }
MoveCheck(crash) ==
    /\ Alive
    /\ at = "move"
    /\ LET res == move(Machine(blocks, head_position, body_positions, FALSE),
                       direction, horizontal, vertical)
           fires == movement_seconds >= MovementInterval
           oob == fires /\ res.m.oob
           uncaught == fires /\ res.thrown # "ok" /\ ~Catches(res.thrown)
       IN
       /\ crash => oob
       /\ fires => Len(res.m.body) <= MaxBody
       /\ IF crash \/ uncaught
          THEN /\ pc' = "crashed"
               /\ UNCHANGED <<blocks, head_position, body_positions, state, title,
                              movement_seconds, at, travelled>>
          ELSE /\ pc' = IF oob THEN "undefined" ELSE pc
               /\ at' = "poll"
               /\ IF fires
                  THEN /\ movement_seconds' = 0
                       /\ blocks' = res.m.g
                       /\ head_position' = res.m.head
                       /\ body_positions' = res.m.body
                       /\ IF res.thrown = "ok"
                          THEN /\ travelled' = direction
                               /\ UNCHANGED <<state, title>>
                          ELSE /\ state' = "End"
                               /\ title' = res.thrown
                               /\ UNCHANGED travelled
                  ELSE UNCHANGED <<movement_seconds, blocks, head_position,
                                   body_positions, state, title, travelled>>
    /\ UNCHANGED <<horizontal, vertical, direction, clock, spawn_seconds, sampled>>

\* case GameStates::End
LoopEnd == at = "poll" /\ UpdateEnd

LoopNext ==
    \/ \E key \in Keys : PollEvent(key)
    \/ \E d \in LoopDeltas : LoopStart(d)
    \/ \E d \in LoopDeltas : ClockRestart(d)
    \/ \E i \in DOMAIN blocks : SampleBlock(i)
    \/ \E crash \in BOOLEAN : MoveCheck(crash)
    \/ LoopEnd

LoopSpec == LoopInit /\ [][LoopNext]_vars

\* every index keeps being drawn: randomiser::gen is a uniform
\* distribution over 0 .. len() - 1
FairLoopSpec ==
    LoopSpec /\ \A i \in 0 .. (LoopCells - 1) : WF_vars(SampleBlock(i))

----------------------------------------------------------------------------
(* Vocabulary of the properties *)

\* head followed by the body segments
Chain == <<head_position>> \o body_positions

\* a position that names a cell of the grid: 0 <= x < width, 0 <= y < height
IsCell(pos) ==
    /\ 0 <= pos[1] /\ pos[1] < horizontal
    /\ 0 <= pos[2] /\ pos[2] < vertical

CellOf(pos) == pos[1] + pos[2] * horizontal

SnakeIndices == {i \in DOMAIN blocks : blocks[i] = OccupiedSnake}

\* the cells the snake covers
CoveredIndices == {CellOf(Chain[k]) : k \in {j \in DOMAIN Chain : IsCell(Chain[j])}}

NoDuplicates == \A j, k \in DOMAIN Chain : j # k => Chain[j] # Chain[k]

\* the run has been free of undefined behaviour and the whole snake lies on
\* cells of the grid
SnakeInGrid == pc = "running" /\ \A k \in DOMAIN Chain : IsCell(Chain[k])

----------------------------------------------------------------------------
(* C1: in every reachable state the cells of type OccupiedSnake are        *)
(* exactly the cells of the head and the body segments, every segment is   *)
(* at a cell of the grid, and no two segments are at the same cell.        *)
C1_SnakeCellsExact ==
    pc = "running" =>
        /\ \A k \in DOMAIN Chain : IsCell(Chain[k])
        /\ SnakeIndices = CoveredIndices
        /\ NoDuplicates

(* C2: in every reachable state no cell at which the head or a body        *)
(* segment is positioned has type OccupiedFruit.                           *)
C2_FruitDisjointFromSnake ==
    pc = "running" =>
        \A k \in DOMAIN Chain :
            IsCell(Chain[k]) => blocks[CellOf(Chain[k])] # OccupiedFruit

(* C10: construction yields a head at a cell of the grid (0 <= x < W,      *)
(* 0 <= y < H), marks exactly that cell OccupiedSnake, and leaves the      *)
(* heading None and the body empty.  A state with state = Start, heading   *)
(* None and clock = 0 is the state construction left.                      *)
C10_ConstructionInGrid ==
    (state = "Start" /\ direction = "None" /\ clock = 0) =>
        /\ pc = "running"
        /\ IsCell(head_position)
        /\ SnakeIndices = {CellOf(head_position)}
        /\ body_positions = <<>>

----------------------------------------------------------------------------
(* Vocabulary of the step properties *)

\* the exact opposite of a heading
Opposite(d) ==
    CASE d = "Left" -> "Right"
      [] d = "Right" -> "Left"
      [] d = "Up" -> "Down"
      [] d = "Down" -> "Up"
      [] OTHER -> "None"

\* unit vector of a heading
Unit(d) ==
    CASE d = "Left" -> <<-1, 0>>
      [] d = "Right" -> <<1, 0>>
      [] d = "Up" -> <<0, -1>>
      [] d = "Down" -> <<0, 1>>
      [] OTHER -> <<0, 0>>

Plus(p, v) == <<p[1] + v[1], p[2] + v[2]>>

\* the candidate head cell of a step taken now
Candidate == Plus(head_position, Unit(direction))

\* a loop iteration in InProgress in which snake.move() is called, d being
\* the elapsed time and r the index the spawn (if any) picked
StepCalled(d, r, crash) == UpdateInProgress(d, r, crash) /\ MovementFires(d)

\* the type of the candidate cell when move() looks at it
CandidateType(d, r) == AfterSpawn(d, r)[CellOf(Candidate)]

\* an iteration whose step succeeded without consuming a fruit
PlainStep(d, r) ==
    /\ StepCalled(d, r, FALSE)
    /\ IsCell(Candidate)
    /\ CandidateType(d, r) = Vacant

(* C3: End is terminal: once the state is End, every later event leaves    *)
(* state End and the head, body, heading and every grid cell unchanged.    *)
C3_EndFreezesAll ==
    [][state = "End" =>
          /\ state' = "End"
          /\ head_position' = head_position
          /\ body_positions' = body_positions
          /\ direction' = direction
          /\ blocks' = blocks]_vars

(* C4: a direction request for the exact opposite of the current non-None  *)
(* heading fails with MotorException and leaves the heading unchanged.     *)
C4_OppositeRejected ==
    [][\A key \in Keys :
          (KeyPressed(key) /\ direction # "None" /\ key = Opposite(direction)) =>
              /\ title' = WhatMotor
              /\ direction' = direction]_vars

\* a reversal was refused while the snake is under way
C4_Witness == state = "InProgress" /\ title = WhatMotor /\ direction # "None"

(* C5: a step fails with out_of_range iff the candidate cell lies outside  *)
(* the grid; otherwise it fails with CollisionException iff the candidate  *)
(* cell is OccupiedSnake; a Vacant or OccupiedFruit candidate never fails. *)
C5_FailureOrder ==
    [][\A d \in Deltas, r \in DOMAIN blocks, crash \in BOOLEAN :
          StepCalled(d, r, crash) =>
              IF ~IsCell(Candidate)
              THEN /\ state' = "End"
                   /\ title' = IF Candidate[1] < 0 \/ Candidate[1] >= horizontal
                               THEN WhatHorizontal ELSE WhatVertical
              ELSE IF CandidateType(d, r) = OccupiedSnake
              THEN state' = "End" /\ title' = WhatCollision
              ELSE state' = "InProgress" /\ title' = title]_vars

\* the run ended on a collision with the snake's own body
C5_Witness == state = "End" /\ title = WhatCollision /\ Len(body_positions) >= 1

(* C6: the state leaves InProgress only for End and only in an iteration   *)
(* whose step fails (candidate outside the grid or OccupiedSnake); every   *)
(* such failure is caught and ends the game in that iteration.             *)
C6_EndIffStepFails ==
    [][/\ (state = "InProgress" /\ state' # "InProgress") =>
              /\ state' = "End"
              /\ \E d \in Deltas, r \in DOMAIN blocks :
                    /\ StepCalled(d, r, FALSE)
                    /\ (~IsCell(Candidate) \/ CandidateType(d, r) = OccupiedSnake)
       /\ \A d \in Deltas, r \in DOMAIN blocks, crash \in BOOLEAN :
              (/\ StepCalled(d, r, crash)
               /\ (~IsCell(Candidate) \/ CandidateType(d, r) = OccupiedSnake)) =>
                  state' = "End" /\ pc' = pc]_vars

\* the run ended on leaving the grid
C6_Witness == state = "End" /\ title = WhatHorizontal /\ pc = "running"

(* C7: while the state is Start no iteration moves the snake or spawns     *)
(* fruit; Start is left only for InProgress and only with a heading set;   *)
(* the state is InProgress only if the heading is not None.                *)
C7_StartUntilHeading ==
    [][/\ state = "Start" =>
              /\ blocks' = blocks
              /\ head_position' = head_position
              /\ body_positions' = body_positions
              /\ state' # "Start" => (state' = "InProgress" /\ direction # "None")
       /\ state' = "InProgress" => direction' # "None"]_vars

\* more than a movement interval has passed in Start and nothing moved
C7_Witness ==
    state = "Start" /\ direction = "None" /\ clock >= MovementInterval

(* C8: for a snake that lies on cells of the grid, a step whose target     *)
(* cell is OccupiedFruit succeeds, clears the fruit, lengthens the body by *)
(* exactly 1, and the new tail segment is at the cell the old tail (the    *)
(* head, if the body was empty) left.                                      *)
C8_GrowthIntoVacatedCell ==
    [][\A d \in Deltas, r \in DOMAIN blocks, crash \in BOOLEAN :
          (/\ StepCalled(d, r, crash)
           /\ SnakeInGrid
           /\ IsCell(Candidate)
           /\ CandidateType(d, r) = OccupiedFruit) =>
              /\ pc' = "running"
              /\ state' = "InProgress"
              /\ head_position' = Candidate
              /\ blocks'[CellOf(Candidate)] = OccupiedSnake
              /\ Len(body_positions') = Len(body_positions) + 1
              /\ body_positions'[Len(body_positions')] = Chain[Len(Chain)]]_vars

\* the snake lies in a straight line behind its head along heading d
Straight(d) ==
    \A k \in DOMAIN body_positions :
        Plus(body_positions[k], Unit(d)) = Chain[k]

(* C9 as stated, for N = 1: for a snake that lies on cells of the grid, a  *)
(* successful step that consumes no fruit moves the head and every body    *)
(* segment by the heading's unit vector.                                   *)
C9_EveryStepTranslates ==
    [][\A d \in Deltas, r \in DOMAIN blocks :
          (PlainStep(d, r) /\ SnakeInGrid) =>
              /\ head_position' = Plus(head_position, Unit(direction))
              /\ Len(body_positions') = Len(body_positions)
              /\ \A k \in DOMAIN body_positions :
                    body_positions'[k] = Plus(body_positions[k], Unit(direction))]_vars

(* C9 amended: for a snake whose segments lie in a straight line behind    *)
(* the head along the heading, a successful step that consumes no fruit    *)
(* moves the head and every segment by the heading's unit vector and       *)
(* leaves the snake straight along that heading - so N such steps with the *)
(* same heading move every segment by N unit vectors.  For any snake the   *)
(* head moves by the unit vector and segment k takes the place its         *)
(* predecessor held.                                                       *)
C9_StraightSnakeTranslates ==
    [][\A d \in Deltas, r \in DOMAIN blocks :
          PlainStep(d, r) =>
              /\ head_position' = Plus(head_position, Unit(direction))
              /\ Len(body_positions') = Len(body_positions)
              /\ \A k \in DOMAIN body_positions : body_positions'[k] = Chain[k]
              /\ Straight(direction) =>
                    /\ \A k \in DOMAIN body_positions :
                          body_positions'[k] =
                              Plus(body_positions[k], Unit(direction))
                    /\ Straight(direction)']_vars

\* a straight snake with a body, under way, with a free cell ahead and no
\* spawn due within the next half interval
C9_Witness ==
    /\ pc = "running" /\ state = "InProgress"
    /\ Len(body_positions) >= 1
    /\ Straight(direction)
    /\ IsCell(Candidate) /\ blocks[CellOf(Candidate)] = Vacant
    /\ spawn_seconds = 0

----------------------------------------------------------------------------
(* Properties of the loop body, checked under LoopSpec *)

\* a step that completes a spawn: get_block_randomly returns and
\* spawn_fruit marks the block
SpawnCompletes == at = "sample" /\ at' = "move"

(* C11: every completed spawn changes exactly one cell, which was Vacant   *)
(* before and is OccupiedFruit after; every other cell and the snake's     *)
(* head, body and heading are unchanged; on a grid with exactly one Vacant *)
(* cell that cell is the one selected.                                     *)
C11_SpawnFrame ==
    [][SpawnCompletes =>
          /\ \E i \in DOMAIN blocks :
                /\ blocks[i] = Vacant
                /\ blocks'[i] = OccupiedFruit
                /\ \A j \in DOMAIN blocks \ {i} : blocks'[j] = blocks[j]
          /\ \A v \in DOMAIN blocks :
                VacantIndices(blocks) = {v} => blocks'[v] = OccupiedFruit
          /\ head_position' = head_position
          /\ body_positions' = body_positions
          /\ direction' = direction]_vars

\* a spawn has just taken the only Vacant cell of a grid of several cells
C11_Witness ==
    /\ pc = "running"
    /\ at = "move"
    /\ spawn_seconds = 0
    /\ Len_(horizontal, vertical) >= 2
    /\ VacantIndices(blocks) = {}
    /\ FruitIndices(blocks) # {}

(* C12: under fair sampling of the cell indices the do-while of            *)
(* get_block_randomly is left whenever the grid has a Vacant cell, and it  *)
(* is never left while every cell is occupied by snake or fruit.           *)
C12_SamplingTerminates ==
    /\ (at = "sample" /\ VacantIndices(blocks) # {}) ~> (at # "sample")
    /\ [][(at = "sample" /\ VacantIndices(blocks) = {}) => at' = "sample"]_vars

\* a draw has been rejected while the grid still has a Vacant cell
C12_Witness ==
    /\ at = "sample"
    /\ sampled > 0
    /\ is_occupied(blocks[sampled])
    /\ VacantIndices(blocks) # {}

\* the movement check finds the movement interval reached
StepDue == at = "move" /\ movement_seconds >= MovementInterval

(* C13: within one loop iteration the direction requests are applied       *)
(* before the time check: an accepted request sets the heading while       *)
(* control is still in the event loop, a refused one leaves it, nothing    *)
(* changes the heading between the time check and the end of the           *)
(* iteration, and a step taken in the iteration examines the cell one unit *)
(* from the head along that heading and, when it succeeds, moves the head  *)
(* there.                                                                  *)
C13_InputBeforeMovement ==
    [][/\ \A key \in Keys :
              PollEvent(key) =>
                  /\ at' = "poll"
                  /\ direction' = IF key = Opposite(direction) THEN direction
                                  ELSE key
       /\ at # "poll" => direction' = direction
       /\ (StepDue /\ pc' # "crashed") =>
              IF state' = "InProgress"
              THEN head_position' = Plus(head_position, Unit(direction))
              ELSE \/ ~IsCell(Candidate)
                   \/ blocks[CellOf(Candidate)] = OccupiedSnake]_vars

\* a step is due in an iteration whose event loop turned the snake: the
\* heading is not the one the first segment followed, and the cell ahead
\* is free
C13_Witness ==
    /\ pc = "running"
    /\ state = "InProgress"
    /\ StepDue
    /\ Len(body_positions) >= 1
    /\ IsCell(body_positions[1])
    /\ head_position # Plus(body_positions[1], Unit(direction))
    /\ IsCell(Candidate)
    /\ blocks[CellOf(Candidate)] = Vacant

(* C18: the accumulators are check-and-reset.  The clock restart adds the  *)
(* elapsed time, and nothing else, to both; a spawn is started exactly     *)
(* when the spawn accumulator has reached the spawn interval, and          *)
(* completing it sets the accumulator to zero; the movement check calls    *)
(* the step exactly when the movement accumulator has reached the movement *)
(* interval and then sets it to zero whatever the excess; below the        *)
(* interval the check changes nothing; no other step changes either        *)
(* accumulator.                                                            *)
C18_CheckAndReset ==
    [][/\ \A d \in LoopDeltas :
              ClockRestart(d) =>
                  /\ movement_seconds' = movement_seconds + clock + d
                  /\ spawn_seconds' = spawn_seconds + clock + d
                  /\ (at' = "sample") <=> (spawn_seconds' >= SpawnInterval)
                  /\ (at' = "move") <=> (spawn_seconds' < SpawnInterval)
                  /\ blocks' = blocks
       /\ at = "sample" =>
              /\ movement_seconds' = movement_seconds
              /\ spawn_seconds' = IF SpawnCompletes THEN 0 ELSE spawn_seconds
       /\ (at = "move" /\ pc' # "crashed") =>
              /\ at' = "poll"
              /\ spawn_seconds' = spawn_seconds
              /\ IF movement_seconds >= MovementInterval
                 THEN /\ movement_seconds' = 0
                      /\ state' = "End" \/ head_position' = Candidate
                 ELSE /\ movement_seconds' = movement_seconds
                      /\ head_position' = head_position
                      /\ body_positions' = body_positions
                      /\ blocks' = blocks
                      /\ state' = state
       /\ (at = "poll" /\ state # "InProgress") =>
              /\ movement_seconds' = movement_seconds
              /\ spawn_seconds' = spawn_seconds]_vars

\* the movement accumulator is past its interval at the movement check,
\* while the spawn accumulator has grown and is still short of its own
C18_Witness ==
    /\ pc = "running"
    /\ state = "InProgress"
    /\ at = "move"
    /\ movement_seconds > MovementInterval
    /\ spawn_seconds > 0
    /\ spawn_seconds < SpawnInterval

\* the movement check calls the step and the step fails
StepFails == StepDue /\ state = "InProgress" /\ state' = "End"

(* C19: a step that fails (candidate outside the grid, or on the snake)    *)
(* mutates nothing: head, body, heading and every grid cell are after the  *)
(* failed call what they were before it.                                   *)
C19_FailedStepMutatesNothing ==
    [][StepFails =>
          /\ ~IsCell(Candidate) \/ blocks[CellOf(Candidate)] = OccupiedSnake
          /\ head_position' = head_position
          /\ body_positions' = body_positions
          /\ direction' = direction
          /\ blocks' = blocks
          /\ pc' = pc]_vars

\* a snake with a body has run into the edge of the grid; it still lies on
\* the grid and the grid's snake cells are its cells
C19_Witness ==
    /\ state = "End"
    /\ title \in {WhatHorizontal, WhatVertical}
    /\ at = "poll"
    /\ Len(body_positions) >= 1
    /\ SnakeInGrid
    /\ SnakeIndices = CoveredIndices

\* the movement check calls the step and the step succeeds
StepSucceeds ==
    StepDue /\ state = "InProgress" /\ state' = "InProgress" /\ pc' # "crashed"

(* C20: the snake never travels in reverse: of two consecutive successful  *)
(* steps (of a snake that lies on cells of the grid) the second is not     *)
(* taken in the exact opposite direction of the first, whatever direction  *)
(* requests are accepted between the two.                                  *)
C20_NeverTravelsInReverse ==
    [][(StepSucceeds /\ SnakeInGrid /\ travelled # "None") =>
          direction # Opposite(travelled)]_vars

----------------------------------------------------------------------------
(* Properties of the snake's operations, checked under Spec *)

(* C14: every position through which the core logic reaches a block has    *)
(* x < width and y < height.  The constructor, update_pos and add_body     *)
(* write the block at the position they store in head_position or          *)
(* body_positions, so the claim says that in every reachable state no      *)
(* write has gone outside blocks and every stored position is a cell of    *)
(* the grid.                                                               *)
C14_AccessesInGrid ==
    /\ pc \notin {"undefined", "crashed"}
    /\ \A k \in DOMAIN Chain : IsCell(Chain[k])

(* C15: a direction request that is not the exact reverse of the current   *)
(* heading (any request while the heading is None, the same or a           *)
(* perpendicular direction otherwise) succeeds and makes the requested     *)
(* direction the heading; no direction request, accepted or refused, moves *)
(* anything: head, body and every grid cell stay as they were.             *)
C15_SetDirection ==
    [][\A key \in Keys :
          KeyPressed(key) =>
              /\ key # Opposite(direction) =>
                    (direction' = key /\ title' = title)
              /\ head_position' = head_position
              /\ body_positions' = body_positions
              /\ blocks' = blocks]_vars

\* a snake under way has turned - the heading is not the one its first
\* segment followed - and no request was ever refused
C15_Witness ==
    /\ pc = "running"
    /\ state = "InProgress"
    /\ title = TitleSnek
    /\ Len(body_positions) >= 1
    /\ IsCell(body_positions[1])
    /\ head_position # Plus(body_positions[1], Unit(direction))

\* the cells a step turns Vacant
NewlyVacant == {i \in DOMAIN blocks : blocks[i] # Vacant /\ blocks'[i] = Vacant}

(* C16: a successful step that consumes no fruit puts the head one unit    *)
(* along the heading, puts every body segment where its predecessor (the   *)
(* head for the first segment) was before the step, and keeps the body     *)
(* length (an empty body stays empty); no cell turns Vacant but the one    *)
(* the last element of the chain held before the step, and for a snake     *)
(* that lies on cells of the grid that cell does turn Vacant.              *)
C16_PlainStepEffect ==
    [][\A d \in Deltas, r \in DOMAIN blocks :
          PlainStep(d, r) =>
              /\ head_position' = Plus(head_position, Unit(direction))
              /\ Len(body_positions') = Len(body_positions)
              /\ \A k \in DOMAIN body_positions : body_positions'[k] = Chain[k]
              /\ NewlyVacant \subseteq {CellOf(Chain[Len(Chain)])}
              /\ SnakeInGrid => NewlyVacant = {CellOf(Chain[Len(Chain)])}]_vars

\* a bent snake of three elements has just taken a step and the cell ahead
\* of it is free
C16_Witness ==
    /\ pc = "running"
    /\ state = "InProgress"
    /\ clock = 0
    /\ movement_seconds = 0
    /\ Len(body_positions) >= 2
    /\ SnakeInGrid
    /\ NoDuplicates
    /\ ~Straight(direction)
    /\ IsCell(Candidate)
    /\ blocks[CellOf(Candidate)] = Vacant

\* where the last element of the chain is once the step has shifted the
\* snake: add_body's "current tail, or head if the body is empty"
ShiftedTail ==
    IF body_positions = <<>> THEN Candidate ELSE Chain[Len(body_positions)]

(* C17: add_body, called with a heading (by a step onto a fruit, on a      *)
(* snake that lies on cells of the grid), appends exactly one segment, at  *)
(* the current tail (the head if the body is empty) minus the heading's    *)
(* unit vector, marks that cell OccupiedSnake, and leaves the head and the *)
(* segments the body already had where the step put them.                  *)
C17_AddBodyEffect ==
    [][\A d \in Deltas, r \in DOMAIN blocks, crash \in BOOLEAN :
          (/\ StepCalled(d, r, crash)
           /\ SnakeInGrid
           /\ IsCell(Candidate)
           /\ CandidateType(d, r) = OccupiedFruit) =>
              LET tail == Plus(ShiftedTail, Unit(Opposite(direction))) IN
              /\ Len(body_positions') = Len(body_positions) + 1
              /\ body_positions'[Len(body_positions')] = tail
              /\ IsCell(tail)
              /\ blocks'[CellOf(tail)] = OccupiedSnake
              /\ head_position' = Candidate
              /\ \A k \in DOMAIN body_positions : body_positions'[k] = Chain[k]]_vars

----------------------------------------------------------------------------
(* Time spent in Start, checked under LoopSpec.  In ClockRestart(d) the    *)
(* time d has passed since the switch of the previous iteration, so with   *)
(* the state InProgress since then; clock holds what had passed before.    *)

(* C21: time that passes in Start does not count toward the accumulators:  *)
(* the movement check finds the movement interval reached, and a spawn is  *)
(* started, only when the accumulator together with the time passed in     *)
(* InProgress has reached the interval.                                    *)
C21_StartTimeNotCounted ==
    [][\A d \in LoopDeltas :
          ClockRestart(d) =>
              /\ movement_seconds' >= MovementInterval =>
                    movement_seconds + d >= MovementInterval
              /\ at' = "sample" => spawn_seconds + d >= SpawnInterval]_vars

----------------------------------------------------------------------------
(* Fruit and the step, checked under Spec *)

(* C22: a fruit disappears only by being eaten: a successful step (one     *)
(* that finds the snake on cells of the grid and leaves it there) removes  *)
(* from the OccupiedFruit cells the head's target cell and no other, and   *)
(* adds none, also when add_body lengthens the snake.                      *)
C22_FruitOnlyEaten ==
    [][\A d \in Deltas, r \in DOMAIN blocks :
          (/\ StepCalled(d, r, FALSE)
           /\ SnakeInGrid
           /\ SnakeInGrid'
           /\ IsCell(Candidate)
           /\ CandidateType(d, r) # OccupiedSnake) =>
              FruitIndices(blocks') =
                  FruitIndices(AfterSpawn(d, r)) \ {CellOf(Candidate)}]_vars

====
